---- MODULE Spec2Model ----
(***************************************************************************)
(* Model of ts-deadcode (src/src/lib.rs): the per-file extractor           *)
(* (FileAnalyzer), the two accumulators of a run (ImportUsage and the      *)
(* export registry of Analyzer) and the finalizer (Analyzer::finalize with *)
(* Analyzer::trace_export).                                                *)
(***************************************************************************)
EXTENDS Integers, Sequences, FiniteSets, TLC

\* ------------------------------------------------------------------ bounds
\* Entries of the export tables (value and type) recorded in one run.
MaxExports == 2
\* `export * from` edges recorded in one run.
MaxExportAlls == 2
\* Usage facts recorded in one run.
MaxFacts == 1
\* Nested trace_export calls the call stack holds before the process aborts.
StackDepth == 4

\* ------------------------------------------------------------ input domains
\* Canonical paths of the files of the tree (PathBuf keys of both maps).
Paths == {"m1", "m2", "m3"}
\* Symbol names (JsWord).
Names == {"a", "b"}
\* Module specifiers: one per file of the tree, a platform built-in, a
\* specifier the resolver maps to the empty module and one it cannot map.
Specifiers == Paths \cup {"fs", "./ignored", "./missing"}
\* What an import can name: any specifier, and the package record_import skips.
ImportSpecifiers == Specifiers \cup {"csstype"}
\* A specifier the resolver maps to a module left outside the tree
\* (Resolution::External), an outcome the extractor has no arm for.
External == "https://cdn/x.js"
\* The symbols of usage facts: named ones and the default export.
Symbols == Names \cup {"default"}
\* Local identifiers that can stand for a module (namespace aliases).
Locals == {"mod"}

\* ------------------------------------------------------------------ helpers
\* Option<PathBuf>, plus the outcome of a recursion the stack cannot hold.
None == [tag |-> "None"]
Some(p) == [tag |-> "Some", path |-> p]
StackOverflow == [tag |-> "StackOverflow"]

\* HashMap::insert on a map kept as a function: overwrite on an existing key.
MapInsert(m, k, v) == [x \in DOMAIN m \cup {k} |-> IF x = k THEN v ELSE m[x]]

EmptyMap == [x \in {} |-> ""]

\* -------------------------------------------------------------------- state
VARIABLES
    import_usage,   \* ImportUsage.imports: path -> set of symbols
    exports,        \* Analyzer.exports: path -> ModuleExports
    visitor,        \* the FileAnalyzer of the add_file call in progress
    results,        \* what finalize returned, once it ran
    modules         \* the parsed files add_file is handed whole: path -> items

vars == <<import_usage, exports, visitor, results, modules>>

NoVisitor == [filename |-> "none"]
NotFinalized == [tag |-> "NotFinalized"]
\* finalize did not return: the recursion of trace_export exhausted the stack.
Aborted == [tag |-> "Aborted"]
\* add_file did not return: the traversal hit panic! / todo!, nothing catches
\* it and the run ends.
Panicked(message) == [tag |-> "Panicked", message |-> message]

\* ----------------------------------------------------------------- resolver
\* parcel_resolver's resolve_with_options, by its outcome.
Resolve(spec) ==
    IF spec \in Paths THEN [kind |-> "Path", path |-> spec]
    ELSE IF spec = "fs" THEN [kind |-> "Builtin"]
    ELSE IF spec = "./ignored" THEN [kind |-> "Empty"]
    ELSE IF spec = External THEN [kind |-> "External"]
    ELSE [kind |-> "Err"]

\* The outcomes record_import and record_export_all have an arm for; any other
\* one reaches their last arm, `resolution => panic!(..)`.
HandledResolutions == {"Path", "Builtin", "Empty", "Err"}

\* ---------------------------------------------------------------- extractor
\* FileAnalyzer::record_import reaches its panic! arm.
record_import_panics(path) ==
    path # "csstype" /\ Resolve(path).kind \notin HandledResolutions

\* FileAnalyzer::record_export_all reaches its panic! arm.
record_export_all_panics(path) ==
    Resolve(path).kind \notin HandledResolutions

\* record_import that replaces the symbols recorded for the file by the new
\* one instead of adding to them.
record_import_overwriting(usage, path, symbol) ==
    LET r == Resolve(path) IN
    IF path = "csstype" THEN usage
    ELSE IF r.kind = "Path" THEN MapInsert(usage, r.path, {symbol})
    ELSE usage

\* FileAnalyzer::record_import: the usage index after a call that returns.
record_import(usage, path, symbol) ==
    LET r == Resolve(path) IN
    IF path = "csstype" THEN usage
    ELSE IF r.kind = "Path"
    THEN MapInsert(usage, r.path,
                   (IF r.path \in DOMAIN usage THEN usage[r.path] ELSE {})
                       \cup {symbol})
    ELSE usage

\* FileAnalyzer::record_export / record_type_export.
record_export(table, exported_name, original_name) ==
    MapInsert(table, exported_name, original_name)

\* FileAnalyzer::record_export_all: the export_alls vector after a call that
\* returns.
record_export_all(export_alls, path) ==
    LET r == Resolve(path) IN
    IF r.kind = "Path" THEN Append(export_alls, r.path) ELSE export_alls

\* ---------------------------------------------------------------- finalizer
RECURSIVE trace_export(_, _, _, _)
RECURSIVE trace_export_alls(_, _, _, _, _)
RECURSIVE trace_export_alls_forward(_, _, _, _, _)
RECURSIVE trace_export_alls_one_hop(_, _, _, _, _)
RECURSIVE trace_export_edges_first(_, _, _, _)

\* trace_export_alls without `.rev()`: the edges in declaration order.
trace_export_alls_forward(reg, export_alls, i, symbol, depth) ==
    IF i = 0 THEN None
    ELSE LET maybe_path == trace_export(reg, export_alls[Len(export_alls) - i + 1],
                                        symbol, depth + 1) IN
         IF maybe_path # None THEN maybe_path
         ELSE trace_export_alls_forward(reg, export_alls, i - 1, symbol, depth)

\* trace_export_alls that looks at the re-exported file's own tables only,
\* without recursing through its edges.
trace_export_alls_one_hop(reg, export_alls, i, symbol, depth) ==
    IF i = 0 THEN None
    ELSE LET target == export_alls[i] IN
         IF /\ target \in DOMAIN reg
            /\ symbol \in DOMAIN reg[target].exports
                            \cup DOMAIN reg[target].type_exports
         THEN Some(target)
         ELSE trace_export_alls_one_hop(reg, export_alls, i - 1, symbol, depth)

\* The loop `for export_all in exports.export_alls.iter().rev()`, positions
\* i, i-1, .., 1 still to visit.
trace_export_alls(reg, export_alls, i, symbol, depth) ==
    IF i = 0 THEN None
    ELSE LET maybe_path == trace_export(reg, export_alls[i], symbol, depth + 1) IN
         IF maybe_path # None THEN maybe_path
         ELSE trace_export_alls(reg, export_alls, i - 1, symbol, depth)

\* trace_export that follows the export-all edges before looking at the
\* file's own tables.
trace_export_edges_first(reg, filename, symbol, depth) ==
    IF depth > StackDepth THEN StackOverflow
    ELSE IF filename \notin DOMAIN reg THEN None
    ELSE LET traced == trace_export_alls(reg, reg[filename].export_alls,
                                         Len(reg[filename].export_alls),
                                         symbol, depth) IN
         IF traced # None THEN traced
         ELSE IF symbol \in DOMAIN reg[filename].exports
                  \/ symbol \in DOMAIN reg[filename].type_exports
              THEN Some(filename)
         ELSE None

\* Analyzer::trace_export; depth counts the nested calls.
trace_export(reg, filename, symbol, depth) ==
    IF depth > StackDepth THEN StackOverflow
    ELSE IF filename \notin DOMAIN reg THEN None
    ELSE IF symbol \in DOMAIN reg[filename].exports
             \/ symbol \in DOMAIN reg[filename].type_exports
         THEN Some(filename)
    ELSE trace_export_alls(reg, reg[filename].export_alls,
                           Len(reg[filename].export_alls), symbol, depth)

\* First loop of finalize: per file, the original names of the exports whose
\* exported name has no direct usage fact.
direct_pass(reg, usage) ==
    [file \in DOMAIN reg |->
        LET used(n) == file \in DOMAIN usage /\ n \in usage[file] IN
        [unused_exports |->
            {reg[file].exports[n] :
                n \in {x \in DOMAIN reg[file].exports : ~used(x)}},
         unused_type_exports |->
            {reg[file].type_exports[n] :
                n \in {x \in DOMAIN reg[file].type_exports : ~used(x)}}]]

\* trace_step that, when the trace finds no provider, takes the file the
\* usage names for the provider.
trace_step_unattributed_clears(reg, res, filename, symbol) ==
    LET traced == trace_export(reg, filename, symbol, 1)
        provider == IF traced = None THEN filename ELSE traced.path
    IN IF traced = StackOverflow THEN Aborted
       ELSE IF provider \notin DOMAIN res THEN res
       ELSE [res EXCEPT
               ![provider].unused_exports = @ \ {symbol},
               ![provider].unused_type_exports = @ \ {symbol}]

\* trace_step that clears the symbol in every file's sets, not only in the
\* provider's.
trace_step_every_module(reg, res, filename, symbol) ==
    LET traced == trace_export(reg, filename, symbol, 1) IN
    IF traced = StackOverflow THEN Aborted
    ELSE IF traced = None THEN res
    ELSE [f \in DOMAIN res |->
            [unused_exports |-> res[f].unused_exports \ {symbol},
             unused_type_exports |-> res[f].unused_type_exports \ {symbol}]]

\* One iteration of the second loop: the usage fact (filename, symbol).
trace_step(reg, res, filename, symbol) ==
    LET traced == trace_export(reg, filename, symbol, 1) IN
    IF traced = StackOverflow THEN Aborted
    ELSE IF traced = None THEN res
    ELSE [res EXCEPT
            ![traced.path].unused_exports = @ \ {symbol},
            ![traced.path].unused_type_exports = @ \ {symbol}]

RECURSIVE trace_pass(_, _, _, _)
\* Second loop of finalize over the usage facts in iteration order `order`,
\* from position i on.
trace_pass(reg, res, order, i) ==
    IF res = Aborted \/ i > Len(order) THEN res
    ELSE trace_pass(reg, trace_step(reg, res, order[i][1], order[i][2]),
                    order, i + 1)

\* finalize without the retain call: every analyzed file stays in the report.
retain_nothing_dropped(res) == res

\* results.retain(..): only the files with something unused stay.
retain(res) ==
    IF res = Aborted THEN Aborted
    ELSE LET keep == {f \in DOMAIN res :
                        res[f].unused_exports # {}
                            \/ res[f].unused_type_exports # {}}
         IN [f \in keep |-> res[f]]

\* Analyzer::finalize, the usage facts visited in the order `order`.
finalize(reg, usage, order) ==
    retain(trace_pass(reg, direct_pass(reg, usage), order, 1))

\* The usage facts as (file, symbol) pairs.
Facts(usage) == {p \in (DOMAIN usage) \X Symbols : p[2] \in usage[p[1]]}

RECURSIVE Perms(_)
Perms(S) ==
    IF S = {} THEN {<<>>}
    ELSE UNION {{<<x>> \o p : p \in Perms(S \ {x})} : x \in S}

\* The orders in which the nested loops over the two hash containers can visit
\* the facts: any order of the files, any order of the symbols of one file.
IterOrders(usage) ==
    {o \in Perms(Facts(usage)) :
        \A i, j, k \in 1..Len(o) :
            (i < j /\ j < k /\ o[i][1] = o[k][1]) => o[j][1] = o[i][1]}

\* ------------------------------------------------------------------ actions
Init ==
    /\ import_usage = EmptyMap
    /\ exports = EmptyMap
    /\ visitor = NoVisitor
    /\ results = NotFinalized
    /\ modules = EmptyMap

NumFacts(usage) == Cardinality(Facts(usage))

ExportsOf(m) ==
    Cardinality(DOMAIN m.exports) + Cardinality(DOMAIN m.type_exports)

RECURSIVE SumOver(_, _)
SumOver(count, fs) ==
    IF fs = {} THEN 0
    ELSE LET f == CHOOSE x \in fs : TRUE
         IN count[f] + SumOver(count, fs \ {f})

\* Table entries held by the registry and by the file in progress.
NumExports(reg, v) ==
    SumOver([f \in DOMAIN reg |-> ExportsOf(reg[f])], DOMAIN reg)
        + (IF v = NoVisitor THEN 0 ELSE ExportsOf(v))

EdgesOf(m) == Len(m.export_alls)

\* Export-all edges held by the registry and by the file in progress.
NumExportAlls(reg, v) ==
    SumOver([f \in DOMAIN reg |-> EdgesOf(reg[f])], DOMAIN reg)
        + (IF v = NoVisitor THEN 0 ELSE EdgesOf(v))

Collecting == results = NotFinalized

\* FileAnalyzer::new: empty tables, no alias; `scopes` is the position of the
\* traversal, the function and callback bodies it is inside of.
NewVisitor(file) ==
    [filename |-> file, exports |-> EmptyMap, type_exports |-> EmptyMap,
     export_alls |-> <<>>, namespace_imports |-> EmptyMap, scopes |-> <<>>]

\* add_file up to the traversal: FileAnalyzer::new for the file.
AddFileBegin(file) ==
    /\ Collecting
    /\ visitor = NoVisitor
    /\ file \notin DOMAIN exports
    /\ visitor' = NewVisitor(file)
    /\ UNCHANGED <<import_usage, exports, results, modules>>

\* The traversal panics: add_file unwinds, the visitor is dropped and the run
\* ends with what the accumulators held.
Crash(message) ==
    /\ visitor' = NoVisitor
    /\ results' = Panicked(message)
    /\ UNCHANGED <<import_usage, exports, modules>>

\* A call of record_import from a handler that changes nothing else.
RecordImport(src, sym) ==
    IF record_import_panics(src) THEN Crash("Got resolution")
    ELSE /\ import_usage' = record_import(import_usage, src, sym)
         /\ NumFacts(import_usage') <= MaxFacts
         /\ UNCHANGED <<exports, visitor, results, modules>>

\* visit_module_decl, ModuleDecl::Import with one named specifier.
VisitImport(src, sym) ==
    /\ visitor # NoVisitor
    /\ RecordImport(src, sym)

\* visit_module_decl, ModuleDecl::ExportDecl of a class, function, variable
\* or enum (value) or of an interface or type alias (type).
VisitExportDecl(kind, name) ==
    /\ visitor # NoVisitor
    /\ visitor' = IF kind = "type"
                  THEN [visitor EXCEPT !.type_exports = record_export(@, name, name)]
                  ELSE [visitor EXCEPT !.exports = record_export(@, name, name)]
    /\ NumExports(exports, visitor') <= MaxExports
    /\ UNCHANGED <<import_usage, exports, results, modules>>

\* VisitExportNamed that records the specifier in the type-only table.
VisitExportNamedAsType(orig, exported) ==
    /\ visitor # NoVisitor
    /\ visitor' = [visitor EXCEPT !.type_exports = record_export(@, exported, orig)]
    /\ NumExports(exports, visitor') <= MaxExports
    /\ UNCHANGED <<import_usage, exports, results, modules>>

\* visit_module_decl, ModuleDecl::ExportNamed with one ExportSpecifier::Named.
VisitExportNamed(orig, exported) ==
    /\ visitor # NoVisitor
    /\ visitor' = [visitor EXCEPT !.exports = record_export(@, exported, orig)]
    /\ NumExports(exports, visitor') <= MaxExports
    /\ UNCHANGED <<import_usage, exports, results, modules>>

\* visit_module_decl, ModuleDecl::ExportAll.
VisitExportAll(src) ==
    /\ visitor # NoVisitor
    /\ IF record_export_all_panics(src) THEN Crash("Got resolution")
       ELSE /\ visitor' = [visitor EXCEPT !.export_alls = record_export_all(@, src)]
            /\ NumExportAlls(exports, visitor') <= MaxExportAlls
            /\ UNCHANGED <<import_usage, exports, results, modules>>

\* add_file after the traversal: self.exports.insert(filename, ModuleExports).
AddFileEnd ==
    /\ visitor # NoVisitor
    /\ visitor.scopes = <<>>
    /\ exports' = MapInsert(exports, visitor.filename,
                            [exports |-> visitor.exports,
                             type_exports |-> visitor.type_exports,
                             export_alls |-> visitor.export_alls])
    /\ visitor' = NoVisitor
    /\ UNCHANGED <<import_usage, results, modules>>

\* finalize that empties the usage index while it traces it.
FinalizeDraining ==
    /\ Collecting
    /\ visitor = NoVisitor
    /\ \E order \in IterOrders(import_usage) :
          results' = finalize(exports, import_usage, order)
    /\ import_usage' = EmptyMap
    /\ UNCHANGED <<exports, visitor, modules>>

\* Analyzer::finalize(self).
Finalize ==
    /\ Collecting
    /\ visitor = NoVisitor
    /\ \E order \in IterOrders(import_usage) :
          results' = finalize(exports, import_usage, order)
    /\ UNCHANGED <<import_usage, exports, visitor, modules>>

Next ==
    \/ \E file \in Paths : AddFileBegin(file)
    \/ \E src \in ImportSpecifiers, sym \in Names : VisitImport(src, sym)
    \/ \E kind \in {"value", "type"}, name \in Names : VisitExportDecl(kind, name)
    \/ \E orig \in Names, exported \in Names : VisitExportNamed(orig, exported)
    \/ \E src \in Specifiers : VisitExportAll(src)
    \/ AddFileEnd
    \/ Finalize

Spec == Init /\ [][Next]_vars

\* ------------------------------------------ the extractor's usage forms
\* Nesting of function and callback bodies the traversal enters.
MaxDepth == 1
\* Elements of an exported array pattern.
MaxElems == 2

\* The specifiers of the usage forms: the analysed library and one specifier
\* for each other outcome of record_import.
UsageSpecifiers == {"m1", "fs", "./ignored", "./missing", "csstype", External}
\* The specifiers a namespace alias is bound to.
AliasSpecifiers == {"m1", "fs", External}

\* The initialiser of a variable declarator: an identifier, `require(src)`,
\* `require(src) as T`, `await import(src)`, or anything else.
VarInits ==
    [kind : {"ident"}, sym : Locals]
        \cup [kind : {"require", "require_as", "await_import"}, src : AliasSpecifiers]
        \cup {[kind |-> "other"]}

\* One property of an object pattern: shorthand `{X}` (Assign), `{X: y}`
\* (KeyValue with an identifier key), or another shape (computed key, rest).
ObjectPatProps ==
    [kind : {"assign", "keyvalue"}, key : Symbols] \cup {[kind |-> "other"]}

\* The name of a variable declarator: an identifier, an object pattern (of one
\* property) or an array pattern.
VarNames ==
    [kind : {"ident"}, sym : Locals]
        \cup [kind : {"object"}, prop : ObjectPatProps]
        \cup {[kind |-> "array"]}

\* The object of a member expression: an identifier, `require(src)`,
\* `(require(src) as T)`, `(await import(src))`, a bare `import(src)` call, or
\* anything else.
MemberObjs ==
    [kind : {"ident"}, sym : Locals]
        \cup [kind : {"require", "paren_require_as", "paren_await_import", "import"},
              src : UsageSpecifiers]
        \cup {[kind |-> "other"]}

\* The property of a member expression: `.X` or a computed `[..]`.
MemberProps == [kind : {"ident"}, sym : Symbols] \cup {[kind |-> "computed"]}

\* What a handler of the visitor leaves behind: the usage index and the alias
\* map when it returns, the message when it panics.
Returns(usage, aliases) ==
    [panic |-> "", import_usage |-> usage, namespace_imports |-> aliases]
Panics(message) == [panic |-> message]

\* A call of record_import by a handler.
try_record_import(usage, aliases, path, symbol) ==
    IF record_import_panics(path) THEN Panics("Got resolution")
    ELSE Returns(record_import(usage, path, symbol), aliases)

\* visit_import_namespace that records a usage of the default export, as the
\* arm of the default import does.
visit_import_namespace_recording(usage, aliases, local, src) ==
    IF record_import_panics(src) THEN Panics("Got resolution")
    ELSE Returns(record_import(usage, src, "default"), MapInsert(aliases, local, src))

\* visit_module_decl, ImportSpecifier::Namespace.
visit_import_namespace(usage, aliases, local, src) ==
    Returns(usage, MapInsert(aliases, local, src))

\* record_destructured_import for an object pattern of one property.
record_destructured_import(usage, aliases, file, prop) ==
    IF prop.kind \in {"assign", "keyvalue"}
    THEN try_record_import(usage, aliases, file, prop.key)
    ELSE Returns(usage, aliases)

\* visit_var_declarator without the arm of `await import(src)`.
visit_var_declarator_no_await(usage, aliases, init, name) ==
    IF init.kind = "ident"
    THEN IF init.sym \in DOMAIN aliases /\ name.kind = "object"
         THEN record_destructured_import(usage, aliases, aliases[init.sym], name.prop)
         ELSE Returns(usage, aliases)
    ELSE IF init.kind \in {"other", "await_import"} THEN Returns(usage, aliases)
    ELSE IF name.kind = "ident"
         THEN Returns(usage, MapInsert(aliases, name.sym, init.src))
    ELSE IF name.kind = "object"
         THEN record_destructured_import(usage, aliases, init.src, name.prop)
    ELSE Panics("not yet implemented")

\* visit_var_declarator for `<name> = <init>`.
visit_var_declarator(usage, aliases, init, name) ==
    IF init.kind = "ident"
    THEN IF init.sym \in DOMAIN aliases /\ name.kind = "object"
         THEN record_destructured_import(usage, aliases, aliases[init.sym], name.prop)
         ELSE Returns(usage, aliases)
    ELSE IF init.kind = "other" THEN Returns(usage, aliases)
    ELSE IF name.kind = "ident"
         THEN Returns(usage, MapInsert(aliases, name.sym, init.src))
    ELSE IF name.kind = "object"
         THEN record_destructured_import(usage, aliases, init.src, name.prop)
    ELSE Panics("not yet implemented")

\* visit_member_expr for `<obj>.<prop>` / `<obj>[..]`.
visit_member_expr(usage, aliases, obj, prop) ==
    IF obj.kind = "ident"
    THEN IF obj.sym \in DOMAIN aliases /\ prop.kind = "ident"
         THEN try_record_import(usage, aliases, aliases[obj.sym], prop.sym)
         ELSE Returns(usage, aliases)
    ELSE IF obj.kind \in {"require", "paren_require_as", "paren_await_import"}
         THEN IF prop.kind = "ident"
              THEN try_record_import(usage, aliases, obj.src, prop.sym)
              ELSE Panics("unhandled")
    ELSE Returns(usage, aliases)

\* visit_call_expr for `import(src).then(sym => ..)`, before it visits the
\* children: the alias map with the parameter bound.
then_enter(aliases, sym, src) == MapInsert(aliases, sym, src)

\* The binding the parameter hides (the Option that HashMap::insert returns).
then_prev_binding(aliases, sym) ==
    IF sym \in DOMAIN aliases THEN Some(aliases[sym]) ELSE None

\* visit_call_expr after it visited the children.
then_exit(aliases, sym, prev_binding) ==
    IF prev_binding # None THEN MapInsert(aliases, sym, prev_binding.path)
    ELSE aliases

\* The step of a handler with outcome `out`.
Handle(out) ==
    IF out.panic # "" THEN Crash(out.panic)
    ELSE /\ import_usage' = out.import_usage
         /\ NumFacts(import_usage') <= MaxFacts
         /\ visitor' = [visitor EXCEPT !.namespace_imports = out.namespace_imports]
         /\ UNCHANGED <<exports, results, modules>>

\* add_file up to the traversal, for a file the registry already holds a
\* record of.
ReAddFileBegin(file) ==
    /\ Collecting
    /\ visitor = NoVisitor
    /\ file \in DOMAIN exports
    /\ visitor' = NewVisitor(file)
    /\ UNCHANGED <<import_usage, exports, results, modules>>

\* visit_module_decl, ImportSpecifier::Default.
VisitImportDefault(src) ==
    /\ visitor # NoVisitor
    /\ RecordImport(src, "default")

VisitImportNamespace(local, src) ==
    /\ visitor # NoVisitor
    /\ Handle(visit_import_namespace(import_usage, visitor.namespace_imports,
                                     local, src))

VisitVarDeclarator(init, name) ==
    /\ visitor # NoVisitor
    /\ Handle(visit_var_declarator(import_usage, visitor.namespace_imports,
                                   init, name))

VisitMemberExpr(obj, prop) ==
    /\ visitor # NoVisitor
    /\ Handle(visit_member_expr(import_usage, visitor.namespace_imports,
                                obj, prop))

\* visit_call_expr for `import(src).then(sym => ..)`, up to the traversal of
\* the children; the frame keeps the locals of the call (sym, prev_binding)
\* and the alias map the callback was entered with.
ThenEnter(sym, src) ==
    /\ visitor # NoVisitor
    /\ Len(visitor.scopes) < MaxDepth
    /\ LET aliases == visitor.namespace_imports IN
       visitor' = [visitor EXCEPT
           !.namespace_imports = then_enter(aliases, sym, src),
           !.scopes = Append(@, [kind |-> "then", sym |-> sym,
                                 prev_binding |-> then_prev_binding(aliases, sym),
                                 entry |-> aliases])]
    /\ UNCHANGED <<import_usage, exports, results, modules>>

\* visit_call_expr after the traversal of the children.
ThenExit ==
    /\ visitor # NoVisitor
    /\ visitor.scopes # <<>>
    /\ LET top == visitor.scopes[Len(visitor.scopes)] IN
       /\ top.kind = "then"
       /\ visitor' = [visitor EXCEPT
              !.namespace_imports = then_exit(@, top.sym, top.prev_binding),
              !.scopes = SubSeq(@, 1, Len(@) - 1)]
    /\ UNCHANGED <<import_usage, exports, results, modules>>

\* The traversal enters the body of a function or of a callback that
\* visit_call_expr does not recognise: no handler of the extractor runs.
EnterFunction ==
    /\ visitor # NoVisitor
    /\ Len(visitor.scopes) < MaxDepth
    /\ visitor' = [visitor EXCEPT
           !.scopes = Append(@, [kind |-> "fn", entry |-> visitor.namespace_imports])]
    /\ UNCHANGED <<import_usage, exports, results, modules>>

\* The traversal leaves that body.
ExitFunction ==
    /\ visitor # NoVisitor
    /\ visitor.scopes # <<>>
    /\ visitor.scopes[Len(visitor.scopes)].kind = "fn"
    /\ visitor' = [visitor EXCEPT !.scopes = SubSeq(@, 1, Len(@) - 1)]
    /\ UNCHANGED <<import_usage, exports, results, modules>>

\* visit_module_decl, ExportDefaultDecl / ExportDefaultExpr.
VisitExportDefault ==
    /\ visitor # NoVisitor
    /\ visitor' = [visitor EXCEPT
           !.exports = record_export(@, "default", "default")]
    /\ NumExports(exports, visitor') <= MaxExports
    /\ UNCHANGED <<import_usage, exports, results, modules>>

\* An element of an array pattern that is no identifier: a hole or a rest.
Hole == "<hole>"

RECURSIVE record_array_exports(_, _, _)
record_array_exports(table, elems, i) ==
    IF i > Len(elems) THEN table
    ELSE record_array_exports(record_export(table, elems[i], elems[i]), elems, i + 1)

\* visit_module_decl, ExportDecl of a variable with an array pattern.
VisitExportVarArray(elems) ==
    /\ visitor # NoVisitor
    /\ IF \E i \in 1..Len(elems) : elems[i] = Hole
       THEN Crash("unknown array export pat")
       ELSE /\ visitor' = [visitor EXCEPT
                   !.exports = record_array_exports(@, elems, 1)]
            /\ NumExports(exports, visitor') <= MaxExports
            /\ UNCHANGED <<import_usage, exports, results, modules>>

ArrayPats == UNION {[1..n -> Names \cup {Hole}] : n \in 1..MaxElems}

\* Export tables with every export under its own name.
PlainTable(S) == [n \in S |-> n]

\* Registries of a run that has analysed m1, a file that exports values
\* under their own names and nothing else.
Libraries ==
    {[f \in {"m1"} |-> [exports |-> PlainTable(V), type_exports |-> EmptyMap,
                        export_alls |-> <<>>]] :
        V \in {W \in SUBSET Symbols : Cardinality(W) <= MaxExports}}

\* The files such a run goes on to analyse for the first time.
Consumers == {"m2"}

\* A run that goes on from such a registry.
ExtractInit ==
    /\ import_usage = EmptyMap
    /\ exports \in Libraries
    /\ visitor = NoVisitor
    /\ results = NotFinalized
    /\ modules = EmptyMap

ExtractNext ==
    \/ \E file \in Consumers : AddFileBegin(file)
    \/ \E file \in Paths : ReAddFileBegin(file)
    \/ \E src \in UsageSpecifiers, sym \in Names : VisitImport(src, sym)
    \/ \E src \in UsageSpecifiers : VisitImportDefault(src)
    \/ \E local \in Locals, src \in AliasSpecifiers : VisitImportNamespace(local, src)
    \/ \E init \in VarInits, name \in VarNames : VisitVarDeclarator(init, name)
    \/ \E obj \in MemberObjs, prop \in MemberProps : VisitMemberExpr(obj, prop)
    \/ \E sym \in Locals, src \in AliasSpecifiers : ThenEnter(sym, src)
    \/ ThenExit
    \/ EnterFunction
    \/ ExitFunction
    \/ VisitExportDefault
    \/ \E elems \in ArrayPats : VisitExportVarArray(elems)
    \/ \E src \in UsageSpecifiers \ Paths : VisitExportAll(src)
    \/ AddFileEnd
    \/ Finalize

ExtractSpec == ExtractInit /\ [][ExtractNext]_vars

\* ------------------------------------------------ whole files, any order
\* Module items of one parsed file.
MaxItems == 1

\* The specifiers of these files: the files of the tree and the specifier the
\* extractor has no arm for.
ItemSpecifiers == Paths \cup {External}

\* The module items visit_module_decl handles: an import of one named
\* specifier, an exported declaration, `export { orig as exported }` and
\* `export * from src`.
ModuleItems ==
    [kind : {"import"}, src : ItemSpecifiers, sym : Names]
        \cup [kind : {"export_decl"}, decl : {"value", "type"}, name : Names]
        \cup [kind : {"export_named"}, orig : Names, exported : Names]
        \cup [kind : {"export_all"}, src : ItemSpecifiers]

\* The bodies of a parsed file.
Programs == UNION {[1..k -> ModuleItems] : k \in 0..MaxItems}

\* The traversal went on: the usage index and the FileAnalyzer after it.
Visited(usage, v) == [panic |-> "", import_usage |-> usage, visitor |-> v]

\* The traversal panicked: the message, the usage index as the panic left it.
Unwound(message, usage) == [panic |-> message, import_usage |-> usage]

\* visit_module_decl for one module item.
visit_module_decl(usage, v, item) ==
    IF item.kind = "import"
    THEN IF record_import_panics(item.src) THEN Unwound("Got resolution", usage)
         ELSE Visited(record_import(usage, item.src, item.sym), v)
    ELSE IF item.kind = "export_decl"
    THEN IF item.decl = "type"
         THEN Visited(usage, [v EXCEPT !.type_exports =
                                  record_export(@, item.name, item.name)])
         ELSE Visited(usage, [v EXCEPT !.exports =
                                  record_export(@, item.name, item.name)])
    ELSE IF item.kind = "export_named"
    THEN Visited(usage, [v EXCEPT !.exports =
                             record_export(@, item.exported, item.orig)])
    ELSE IF record_export_all_panics(item.src) THEN Unwound("Got resolution", usage)
         ELSE Visited(usage, [v EXCEPT !.export_alls = record_export_all(@, item.src)])

RECURSIVE visit_module(_, _, _, _)
\* module.visit_with(&mut visitor): the items from position i on, in order.
visit_module(usage, v, items, i) ==
    IF i > Len(items) THEN Visited(usage, v)
    ELSE LET out == visit_module_decl(usage, v, items[i]) IN
         IF out.panic # "" THEN out
         ELSE visit_module(out.import_usage, out.visitor, items, i + 1)

\* The accumulators after add_file returned.
Added(usage, reg) == [panic |-> "", import_usage |-> usage, exports |-> reg]

\* add_file that hands the FileAnalyzer a usage index of its own and keeps
\* that one.
add_file_own_usage(usage, reg, file, items) ==
    LET out == visit_module(EmptyMap, NewVisitor(file), items, 1) IN
    IF out.panic # "" THEN Unwound(out.panic, out.import_usage)
    ELSE Added(out.import_usage,
               MapInsert(reg, file, [exports |-> out.visitor.exports,
                                     type_exports |-> out.visitor.type_exports,
                                     export_alls |-> out.visitor.export_alls]))

\* Analyzer::add_file for a file with the items `items`.
add_file(usage, reg, file, items) ==
    LET out == visit_module(usage, NewVisitor(file), items, 1) IN
    IF out.panic # "" THEN Unwound(out.panic, out.import_usage)
    ELSE Added(out.import_usage,
               MapInsert(reg, file, [exports |-> out.visitor.exports,
                                     type_exports |-> out.visitor.type_exports,
                                     export_alls |-> out.visitor.export_alls]))

\* One call of add_file, for a file not analysed before.
AddFile(file) ==
    /\ Collecting
    /\ visitor = NoVisitor
    /\ file \in DOMAIN modules \ DOMAIN exports
    /\ LET out == add_file(import_usage, exports, file, modules[file]) IN
       IF out.panic # ""
       THEN /\ results' = Panicked(out.panic)
            /\ import_usage' = out.import_usage
            /\ UNCHANGED <<exports, visitor, modules>>
       ELSE /\ import_usage' = out.import_usage
            /\ exports' = out.exports
            /\ UNCHANGED <<visitor, results, modules>>

\* A run over a parsed tree.
OrderInit ==
    /\ import_usage = EmptyMap
    /\ exports = EmptyMap
    /\ visitor = NoVisitor
    /\ results = NotFinalized
    /\ modules \in [Paths -> Programs]

OrderNext ==
    \/ \E file \in Paths : AddFile(file)
    \/ Finalize

OrderSpec == OrderInit /\ [][OrderNext]_vars

\* ------------------------------------------------------- claim vocabulary
\* finalize ran.
Finalized == results # NotFinalized /\ "message" \notin DOMAIN results
\* finalize returned a report.
Returned == Finalized /\ results # Aborted

Analyzed == DOMAIN exports

\* File M's own export record (value or type table) declares S.
Declares(M, S) ==
    /\ M \in Analyzed
    /\ S \in DOMAIN exports[M].exports \cup DOMAIN exports[M].type_exports

\* The targets of M's export-all edges.
EdgeTargets(M) ==
    IF M \in Analyzed
    THEN {exports[M].export_alls[i] : i \in 1..Len(exports[M].export_alls)}
    ELSE {}

RECURSIVE Closure(_)
\* The files reachable from the files of Fs through export-all edges, Fs included.
Closure(Fs) ==
    LET next == Fs \cup UNION {EdgeTargets(x) : x \in Fs}
    IN IF next = Fs THEN Fs ELSE Closure(next)

\* Some file reachable from T (T included) declares S.
LeadsToDecl(T, S) == \E P \in Closure({T}) : Declares(P, S)

\* The names finalize reported for M, in either set.
ReportedNames(M) ==
    IF M \in DOMAIN results
    THEN results[M].unused_exports \cup results[M].unused_type_exports
    ELSE {}

\* M's export with exported name S is reported unused, in the table it is
\* declared in (the report names an export by its original name).
ExportReported(M, S) ==
    /\ M \in DOMAIN results
    /\ S \in DOMAIN exports[M].exports
          => exports[M].exports[S] \in results[M].unused_exports
    /\ S \in DOMAIN exports[M].type_exports
          => exports[M].type_exports[S] \in results[M].unused_type_exports

\* No usage fact other than f names a symbol P declares from a file P is
\* reachable from.
NoOtherFactReaches(P, f) ==
    \A g \in Facts(import_usage) \ {f} :
        ~(Declares(P, g[2]) /\ P \in Closure({g[1]}))

SetMax(S) == CHOOSE x \in S : \A y \in S : y <= x

\* --------------------------------------------------------------------- C1
\* The positions of M's export-all edges that lead to a file declaring S.
HitEdges(M, S) ==
    {i \in 1..Len(exports[M].export_alls) :
        LeadsToDecl(exports[M].export_alls[i], S)}

\* The files reachable through the last-declared edge of M that leads to S.
ViaLastHit(M, S) ==
    Closure({exports[M].export_alls[SetMax(HitEdges(M, S))]})

\* The providers of S reachable from M through earlier-declared edges only.
EarlierOnly(M, S) ==
    {P \in Closure(EdgeTargets(M)) : Declares(P, S) /\ P \notin ViaLastHit(M, S)}

\* C1 (shadowing tie-break): whenever finalize returns, for every usage fact
\* (M, S) where M does not declare S and two or more of M's export-all edges
\* lead to a file declaring S, the trace selects a provider reached through
\* the last-declared such edge and S leaves that provider's unused sets, while
\* every provider reachable through earlier-declared edges only keeps its
\* export S reported unused (no other usage fact reaching it).
C1_ShadowingTieBreak ==
    Returned =>
        \A f \in Facts(import_usage) :
            LET M == f[1]
                S == f[2]
            IN (M \in Analyzed /\ ~Declares(M, S)
                    /\ Cardinality(HitEdges(M, S)) >= 2) =>
                 /\ \E Q \in ViaLastHit(M, S) :
                       /\ Declares(Q, S)
                       /\ trace_export(exports, M, S, 1) = Some(Q)
                       /\ S \notin ReportedNames(Q)
                 /\ \A P \in EarlierOnly(M, S) :
                       NoOtherFactReaches(P, f) => ExportReported(P, S)

\* Two edges of M lead to two different providers of S, and finalize returned.
C1_Witness ==
    /\ Returned
    /\ \E f \in Facts(import_usage) :
          /\ f[1] \in Analyzed
          /\ ~Declares(f[1], f[2])
          /\ Cardinality(HitEdges(f[1], f[2])) >= 2
          /\ EarlierOnly(f[1], f[2]) # {}

\* --------------------------------------------------------------------- C2
RECURSIVE LinearChain(_, _, _, _)
\* From M, following the single export-all edge of each file, N is reached
\* without meeting a file twice and without meeting a file that declares S.
LinearChain(M, N, S, seen) ==
    /\ M \in Analyzed
    /\ ~Declares(M, S)
    /\ Len(exports[M].export_alls) = 1
    /\ LET T == exports[M].export_alls[1]
       IN /\ T \notin seen
          /\ T = N \/ LinearChain(T, N, S, seen \cup {T})

HasNoExports(X) ==
    /\ X \in Analyzed
    /\ DOMAIN exports[X].exports = {}
    /\ DOMAIN exports[X].type_exports = {}

OnCycle(M) == M \in Closure(EdgeTargets(M))

\* C3 (cyclic re-export graphs): once finalize has run on a registry where
\* some usage fact (M, S) has M on a cycle of export-all edges and no file
\* reachable from M declares S, finalize has returned a report.
C3_CyclicTraceTerminates ==
    (Finalized /\ \E f \in Facts(import_usage) :
                    /\ OnCycle(f[1])
                    /\ ~LeadsToDecl(f[1], f[2]))
        => results # Aborted

\* --------------------------------------------------------------------- C4
\* The trace of usage fact f selects file M.
Attributed(f, M) == trace_export(exports, f[1], f[2], 1) = Some(M)

\* Some usage fact naming E is attributed to M.
UsageAttributed(M, E) ==
    \E f \in Facts(import_usage) : f[2] = E /\ Attributed(f, M)

\* C4 (no export is silently dropped): whenever finalize returns, every
\* exported name E of every analyzed file M, in the value table and in the
\* type table, is reported (by its original name) in M's unused set of that
\* table, or some usage fact naming E is attributed to M.
C4_NoExportSilentlyDropped ==
    Returned =>
        \A M \in Analyzed :
            /\ \A E \in DOMAIN exports[M].exports :
                  \/ /\ M \in DOMAIN results
                     /\ exports[M].exports[E] \in results[M].unused_exports
                  \/ UsageAttributed(M, E)
            /\ \A E \in DOMAIN exports[M].type_exports :
                  \/ /\ M \in DOMAIN results
                     /\ exports[M].type_exports[E] \in results[M].unused_type_exports
                  \/ UsageAttributed(M, E)

\* --------------------------------------------------------------------- C5
\* C5 (the report holds only declared, unmatched exports): whenever finalize
\* returns, every name in a file's reported unused value (type) set is the
\* original name of an entry of its value (type) table to which no usage fact
\* is attributed.
C5_ReportOnlyUnmatched ==
    Returned =>
        \A M \in DOMAIN results :
            /\ \A o \in results[M].unused_exports :
                  \E E \in DOMAIN exports[M].exports :
                      exports[M].exports[E] = o /\ ~UsageAttributed(M, E)
            /\ \A o \in results[M].unused_type_exports :
                  \E E \in DOMAIN exports[M].type_exports :
                      exports[M].type_exports[E] = o /\ ~UsageAttributed(M, E)

\* --------------------------------------------------------------------- C6
\* C6 (own declaration before star re-exports): once finalize has run, for
\* every usage fact (M, S) with S declared by M itself, the trace selects M
\* without following M's edges (so with this fact alone finalize returns,
\* whatever the edges), S is in neither unused set of M, and every other file
\* reachable through M's export-all edges that declares S keeps its export S
\* reported unused unless another usage fact reaches it.
C6_OwnDeclarationPrecedence ==
    Finalized =>
        \A f \in Facts(import_usage) :
            LET M == f[1]
                S == f[2]
            IN Declares(M, S) =>
                 /\ trace_export(exports, M, S, 1) = Some(M)
                 /\ Facts(import_usage) = {f} => Returned
                 /\ Returned =>
                       /\ S \notin ReportedNames(M)
                       /\ \A N \in Closure(EdgeTargets(M)) \ {M} :
                             (Declares(N, S) /\ NoOtherFactReaches(N, f))
                                 => ExportReported(N, S)

\* M declares S and re-exports a file that declares S too; finalize returned.
C6_Witness ==
    /\ Returned
    /\ \E f \in Facts(import_usage) :
          /\ Declares(f[1], f[2])
          /\ \E N \in EdgeTargets(f[1]) \ {f[1]} :
                Declares(N, f[2]) /\ ExportReported(N, f[2])

\* --------------------------------------------------------------------- C7
\* The usage index without the fact f (a file keeps no empty symbol set).
Without(usage, f) ==
    LET rest == usage[f[1]] \ {f[2]}
    IN [x \in (IF rest = {} THEN DOMAIN usage \ {f[1]} ELSE DOMAIN usage) |->
            IF x = f[1] THEN rest ELSE usage[x]]

\* C7 (an unattributed usage has no effect): once finalize has run, for every
\* usage fact (M, S) where M was never analyzed or neither M nor anything
\* reachable through its export-all edges declares S, finalize did not fail and
\* returned the report it returns without that fact.
C7_UnattributedUsageNoEffect ==
    Finalized =>
        \A f \in Facts(import_usage) :
            ~LeadsToDecl(f[1], f[2]) =>
                /\ results # Aborted
                /\ \A order \in IterOrders(Without(import_usage, f)) :
                      results = finalize(exports, Without(import_usage, f), order)

\* --------------------------------------------------------------------- C8
\* The symbols of the usage facts attributed to M.
AttributedSymbols(M) ==
    {f[2] : f \in {g \in Facts(import_usage) : Attributed(g, M)}}

\* The original names of the entries of `table` of M without a direct usage
\* fact, less the symbols attributed to M.
UnusedAfterTrace(M, table) ==
    {table[E] : E \in {x \in DOMAIN table : <<M, x>> \notin Facts(import_usage)}}
        \ AttributedSymbols(M)

\* C8 (report membership): whenever finalize returns, a file is a key of the
\* report if and only if it was analyzed and, all usage facts traced, its
\* unused value set or its unused type set is non-empty; the entry of a key
\* holds exactly these two sets.
C8_ReportMembership ==
    Returned =>
        \A M \in Paths :
            /\ M \in DOMAIN results <=>
                  /\ M \in Analyzed
                  /\ \/ UnusedAfterTrace(M, exports[M].exports) # {}
                     \/ UnusedAfterTrace(M, exports[M].type_exports) # {}
            /\ M \in DOMAIN results =>
                  /\ results[M].unused_exports
                        = UnusedAfterTrace(M, exports[M].exports)
                  /\ results[M].unused_type_exports
                        = UnusedAfterTrace(M, exports[M].type_exports)

\* One analyzed file has all its exports consumed and is absent from the
\* report, another one is a key of it.
C8_Witness ==
    /\ Returned
    /\ DOMAIN results # {}
    /\ \E M \in Analyzed \ DOMAIN results :
          /\ DOMAIN exports[M].exports \cup DOMAIN exports[M].type_exports # {}
          /\ \A E \in DOMAIN exports[M].exports \cup DOMAIN exports[M].type_exports :
                <<M, E>> \in Facts(import_usage)

\* --------------------------------------------------------------------- C9
NoExportAllEdges == \A M \in Analyzed : exports[M].export_alls = <<>>

\* The original names of the entries of `table` of M whose exported name has
\* no usage fact against M.
NotUsedDirectly(M, table) ==
    {table[E] : E \in {x \in DOMAIN table : <<M, x>> \notin Facts(import_usage)}}

\* C9 (direct reconciliation): whenever finalize returns and no file has an
\* export-all edge, every analyzed file's reported unused value set is its
\* value exports less those with a usage fact against the file, and its
\* reported unused type set is its type exports less those with a usage fact,
\* each table on its own.
C9_DirectReconciliation ==
    (Returned /\ NoExportAllEdges) =>
        \A M \in Analyzed :
            LET reported == IF M \in DOMAIN results THEN results[M]
                            ELSE [unused_exports |-> {}, unused_type_exports |-> {}]
            IN /\ reported.unused_exports
                     = NotUsedDirectly(M, exports[M].exports)
               /\ reported.unused_type_exports
                     = NotUsedDirectly(M, exports[M].type_exports)

Binding(aliases, x) == IF x \in DOMAIN aliases THEN Some(aliases[x]) ELSE None

\* The innermost body the traversal is inside of.
TopScope == visitor.scopes[Len(visitor.scopes)]

\* C11 (dynamic-import callback scoping): the step in which the traversal
\* leaves the callback of `import(spec).then(param => ..)` leaves param bound
\* to what it was bound to before the callback was entered: the prior binding,
\* or nothing if there was none.
C11_CallbackAliasScoped ==
    [][ThenExit =>
          Binding(visitor'.namespace_imports, TopScope.sym)
              = TopScope.prev_binding]_vars

\* -------------------------------------------------------------------- C12
\* The usage index `usage` with the fact (file, symbol) added.
WithFact(usage, file, symbol) == Facts(usage) \cup {<<file, symbol>>}

\* The handler outcome `out` returned, and its usage index is `usage` with the
\* fact (file, X) added.
Recorded(out, usage, file, X) ==
    /\ out.panic = ""
    /\ Facts(out.import_usage) = WithFact(usage, file, X)

\* `{X}` and `{X: y}`.
PatsOf(X) == {[kind |-> "object", prop |-> [kind |-> k, key |-> X]] :
                k \in {"assign", "keyvalue"}}

\* The usage forms that reference X of the module of specifier src in one
\* node: named import (default import for X = "default"), member access on
\* require / (require as) / (await import), destructuring of these calls.
DirectFormsRecord(usage, aliases, src, file, X) ==
    /\ Recorded(try_record_import(usage, aliases, src, X), usage, file, X)
    /\ \A k \in {"require", "paren_require_as", "paren_await_import"} :
          Recorded(visit_member_expr(usage, aliases, [kind |-> k, src |-> src],
                                     [kind |-> "ident", sym |-> X]),
                   usage, file, X)
    /\ \A k \in {"require", "require_as", "await_import"} : \A pat \in PatsOf(X) :
          Recorded(visit_var_declarator(usage, aliases, [kind |-> k, src |-> src], pat),
                   usage, file, X)

\* The references of X through the alias l: `l.X` and the destructuring of l.
AliasFormsRecord(usage, aliases, l, file, X) ==
    /\ Recorded(visit_member_expr(usage, aliases, [kind |-> "ident", sym |-> l],
                                  [kind |-> "ident", sym |-> X]),
                usage, file, X)
    /\ \A pat \in PatsOf(X) :
          Recorded(visit_var_declarator(usage, aliases,
                                        [kind |-> "ident", sym |-> l], pat),
                   usage, file, X)

\* The alias maps after l is bound to src by a namespace import, by a
\* declarator initialised with require / (require as) / (await import), and
\* by the parameter of a then-callback.
AfterBinding(usage, aliases, l, src) ==
    {visit_import_namespace(usage, aliases, l, src).namespace_imports,
     then_enter(aliases, l, src)}
        \cup {visit_var_declarator(usage, aliases, [kind |-> k, src |-> src],
                                   [kind |-> "ident", sym |-> l]).namespace_imports :
                k \in {"require", "require_as", "await_import"}}

\* C12 (completeness of usage forms): at every point of a traversal, each
\* usage form that references symbol X of a resolved module (in one node, or
\* by binding an alias and then accessing or destructuring it) leaves the
\* usage fact (module, X) in the index; and when a module exports exactly
\* {A, B} under their own names and the only usage fact is (module, A),
\* finalize reports exactly B unused for it.
C12_UsageFormsComplete ==
    /\ visitor # NoVisitor =>
          \A src \in {x \in UsageSpecifiers : Resolve(x).kind = "Path"} :
          \A X \in Symbols :
              LET usage == import_usage
                  aliases == visitor.namespace_imports
                  file == Resolve(src).path
              IN /\ DirectFormsRecord(usage, aliases, src, file, X)
                 /\ \A l \in Locals : \A bound \in AfterBinding(usage, aliases, l, src) :
                       AliasFormsRecord(usage, bound, l, file, X)
    /\ Returned =>
          \A M \in Analyzed : \A A \in Symbols : \A B \in Symbols \ {A} :
              (/\ exports[M].exports = [n \in {A, B} |-> n]
               /\ exports[M].type_exports = EmptyMap
               /\ Facts(import_usage) = {<<M, A>>})
                  => /\ M \in DOMAIN results
                     /\ results[M] = [unused_exports |-> {B},
                                      unused_type_exports |-> {}]

\* The library exports {A, B}, the consumer referenced A (the usage index
\* holds that fact alone), and finalize reported B.
C12_Witness ==
    /\ Returned
    /\ \E M \in Analyzed : \E A \in Symbols : \E B \in Symbols \ {A} :
          /\ exports[M].exports = [n \in {A, B} |-> n]
          /\ Facts(import_usage) = {<<M, A>>}
          /\ M \in DOMAIN results
          /\ results[M].unused_exports = {B}

\* -------------------------------------------------------------------- C13
\* The specifiers the resolver maps to no module of the tree.
NonResolving ==
    {src \in UsageSpecifiers : src # "csstype" /\ Resolve(src).kind # "Path"}

\* C13 (non-resolving outcomes never abort and never record): no run ends in
\* the panic of record_import or record_export_all, and where these return for
\* a specifier that resolves to no module, the usage index and the export-all
\* edges are what they were.
C13_NonResolvingSkipped ==
    /\ results # Panicked("Got resolution")
    /\ visitor # NoVisitor =>
          \A src \in NonResolving :
              /\ ~record_import_panics(src) =>
                    \A X \in Symbols :
                        record_import(import_usage, src, X) = import_usage
              /\ ~record_export_all_panics(src) =>
                    record_export_all(visitor.export_alls, src) = visitor.export_alls

\* -------------------------------------------------------------------- C14
RECURSIVE SubSeqs(_)
\* The sequences left of seq when some of its elements are dropped.
SubSeqs(seq) ==
    IF seq = <<>> THEN {<<>>}
    ELSE LET rest == SubSeqs(Tail(seq))
         IN rest \cup {<<Head(seq)>> \o r : r \in rest}

\* The registries of the runs in which some `export * from` specifiers fail to
\* resolve: record_export_all pushes no edge for them, the tables are the same.
FailedRegistries(reg) ==
    {reg2 \in [DOMAIN reg ->
                 UNION {{[exports |-> reg[f].exports,
                          type_exports |-> reg[f].type_exports,
                          export_alls |-> ea] : ea \in SubSeqs(reg[f].export_alls)} :
                        f \in DOMAIN reg}] :
        \A f \in DOMAIN reg :
            /\ reg2[f].exports = reg[f].exports
            /\ reg2[f].type_exports = reg[f].type_exports
            /\ reg2[f].export_alls \in SubSeqs(reg[f].export_alls)}

\* The usage index that holds the facts F.
UsageOf(F) ==
    [file \in {f[1] : f \in F} |-> {f[2] : f \in {g \in F : g[1] = file}}]

\* Every export the report r1 lists is listed by the report r2.
StillReported(r1, r2) ==
    \A M \in DOMAIN r1 :
        /\ M \in DOMAIN r2
        /\ r1[M].unused_exports \subseteq r2[M].unused_exports
        /\ r1[M].unused_type_exports \subseteq r2[M].unused_type_exports

\* C14 (resolution failure only under-reports usage): whenever finalize
\* returns, every run over the same modules in which some import specifiers
\* and some `export * from` specifiers fail to resolve (its usage index lacks
\* some facts, its registry some edges) and that returns a report lists in
\* it every export this report lists.
C14_FailureOnlyUnderReports ==
    Returned =>
        \A reg2 \in FailedRegistries(exports) :
        \A F \in SUBSET Facts(import_usage) :
        \A order \in IterOrders(UsageOf(F)) :
            LET r2 == finalize(reg2, UsageOf(F), order)
            IN r2 # Aborted => StillReported(results, r2)

\* In the run with registry reg2 every usage fact of F is traced to the
\* module this run traces it to, or to none.
SameProviders(reg2, F) ==
    \A f \in F :
        trace_export(reg2, f[1], f[2], 1)
            \in {None, trace_export(exports, f[1], f[2], 1)}

\* C14 as amended: the same, for the runs in which the failed `export * from`
\* edges hid no other provider of a used symbol (every usage fact is traced
\* to the module this run traces it to, or to none): such a run returns a
\* report, which lists every export this report lists.
C14_FailureUnderReportsSameProviders ==
    Returned =>
        \A reg2 \in FailedRegistries(exports) :
        \A F \in SUBSET Facts(import_usage) :
            SameProviders(reg2, F) =>
                \A order \in IterOrders(UsageOf(F)) :
                    LET r2 == finalize(reg2, UsageOf(F), order)
                    IN r2 # Aborted /\ StillReported(results, r2)

\* A usage fact is traced through an export-all edge to a provider; in the
\* run where that edge fails the provider's export is reported in addition.
C14_Witness ==
    /\ Returned
    /\ \E reg2 \in FailedRegistries(exports) \ {exports} :
          /\ SameProviders(reg2, Facts(import_usage))
          /\ \E f \in Facts(import_usage) :
                /\ trace_export(exports, f[1], f[2], 1) \notin {None, Some(f[1])}
                /\ trace_export(reg2, f[1], f[2], 1) = None
          /\ \A order \in IterOrders(import_usage) :
                finalize(reg2, import_usage, order) # results

\* -------------------------------------------------------------------- C15
\* C15 (usage facts are monotone): no step of a run removes a usage fact from
\* the index, the analysis of a file that was analysed before included.
C15_UsageMonotone ==
    [][Facts(import_usage) \subseteq Facts(import_usage')]_vars

\* A file is being analysed for the second time and the index holds a fact.
C15_Witness ==
    /\ visitor # NoVisitor
    /\ visitor.filename \in DOMAIN exports
    /\ Facts(import_usage) # {}

\* -------------------------------------------------------------------- C16
\* C16 (export records are written once): no step of a run changes or removes
\* the record the registry holds for a module.
C16_ExportRecordWrittenOnce ==
    [][\A M \in DOMAIN exports :
          M \in DOMAIN exports' /\ exports'[M] = exports[M]]_vars

\* -------------------------------------------------------------------- C17
\* The messages of the panics the extractor raises on a shape it does not
\* recognise: a computed member of a require / import call, an array pattern
\* bound to such a call, a hole or rest in an exported array pattern.
ShapePanics == {"unhandled", "not yet implemented", "unknown array export pat"}

\* C17 (unrecognised shapes are skipped, not fatal): no run ends in a panic
\* on an unrecognised shape, and the shapes the handlers skip (a computed
\* member of an alias, a property of an object pattern that is neither
\* shorthand nor identifier-keyed, an alias bound to something else than an
\* object pattern) leave the usage index and the alias map as they were.
C17_UnrecognisedShapesSkipped ==
    /\ \A message \in ShapePanics : results # Panicked(message)
    /\ visitor # NoVisitor =>
          LET usage == import_usage
              aliases == visitor.namespace_imports
              skipped == Returns(usage, aliases)
          IN \A l \in Locals :
                /\ visit_member_expr(usage, aliases, [kind |-> "ident", sym |-> l],
                                     [kind |-> "computed"]) = skipped
                /\ visit_var_declarator(usage, aliases, [kind |-> "ident", sym |-> l],
                        [kind |-> "object", prop |-> [kind |-> "other"]]) = skipped
                /\ visit_var_declarator(usage, aliases, [kind |-> "ident", sym |-> l],
                        [kind |-> "array"]) = skipped

\* -------------------------------------------------------------------- C18
\* C18 (declared aliases do not leak across scopes): the step in which the
\* traversal leaves a function or callback body leaves every local identifier
\* (but the parameter of a then-callback, which C11 is about) bound to what it
\* was bound to when the body was entered.
C18_DeclaredAliasScoped ==
    [][(ExitFunction \/ ThenExit) =>
          \A x \in Locals :
              \/ TopScope.kind = "then" /\ TopScope.sym = x
              \/ Binding(visitor'.namespace_imports, x)
                    = Binding(TopScope.entry, x)]_vars

\* -------------------------------------------------------------------- C19
\* C19 (a namespace import by itself records nothing): at every point of a
\* traversal, `import * as ns from spec` leaves the usage index as it is and
\* binds ns; with ns bound, `ns.X` and the destructuring of ns with key X add
\* exactly the fact (module of spec, X); and whenever finalize returns, every
\* export of a file without a usage fact for its exported name is reported.
C19_NamespaceImportRecordsNothing ==
    /\ visitor # NoVisitor =>
          \A ns \in Locals : \A src \in AliasSpecifiers :
              LET out == visit_import_namespace(import_usage,
                             visitor.namespace_imports, ns, src)
              IN /\ out.panic = ""
                 /\ out.import_usage = import_usage
                 /\ out.namespace_imports[ns] = src
                 /\ Resolve(src).kind = "Path" =>
                       \A X \in Symbols :
                           AliasFormsRecord(out.import_usage, out.namespace_imports,
                                            ns, Resolve(src).path, X)
    /\ Returned =>
          \A M \in Analyzed : \A E \in DOMAIN exports[M].exports :
              <<M, E>> \notin Facts(import_usage) =>
                  /\ M \in DOMAIN results
                  /\ exports[M].exports[E] \in results[M].unused_exports

\* An alias is bound to the library, which has exports, and the index holds
\* no fact.
C19_Witness ==
    /\ visitor # NoVisitor
    /\ visitor.scopes = <<>>
    /\ \E ns \in DOMAIN visitor.namespace_imports :
          /\ Resolve(visitor.namespace_imports[ns]).kind = "Path"
          /\ Resolve(visitor.namespace_imports[ns]).path \in Analyzed
          /\ DOMAIN exports[Resolve(visitor.namespace_imports[ns]).path].exports # {}
    /\ Facts(import_usage) = {}

\* -------------------------------------------------------------------- C20
\* The two unused sets report r holds for M (empty for a file it has no key
\* for).
ReportOf(r, M) ==
    IF M \in DOMAIN r THEN r[M]
    ELSE [unused_exports |-> {}, unused_type_exports |-> {}]

\* C20 (usage is keyed per module): whenever finalize returns, for every
\* usage fact (M, S), the report differs from the report of the run without
\* that fact at most for the module the trace of (M, S) selects; and a file N
\* that declares S and that no usage fact's module reaches keeps its export S
\* reported unused.
C20_UsageKeyedPerModule ==
    Returned =>
        \A f \in Facts(import_usage) :
            /\ \A order \in IterOrders(Without(import_usage, f)) :
                  LET r0 == finalize(exports, Without(import_usage, f), order)
                  IN /\ r0 # Aborted
                     /\ \A N \in Paths :
                           trace_export(exports, f[1], f[2], 1) # Some(N)
                               => ReportOf(results, N) = ReportOf(r0, N)
            /\ \A N \in Analyzed :
                  (/\ Declares(N, f[2])
                   /\ \A g \in Facts(import_usage) : N \notin Closure({g[1]}))
                      => ExportReported(N, f[2])

\* Two files declare S, neither re-exports the other, S is imported from one
\* of them and reported unused for the other one.
C20_Witness ==
    /\ Returned
    /\ \E f \in Facts(import_usage) : \E N \in Analyzed \ {f[1]} :
          /\ Declares(f[1], f[2])
          /\ Declares(N, f[2])
          /\ N \notin Closure({f[1]})
          /\ f[1] \notin Closure({N})
          /\ Facts(import_usage) = {f}
          /\ N \in DOMAIN results
          /\ ExportReported(N, f[2])
          /\ f[1] \notin DOMAIN results

\* -------------------------------------------------------------------- C21
\* The step is one of a traversal in progress (it neither creates nor drops
\* the FileAnalyzer).
Traversing == visitor # NoVisitor /\ visitor' # NoVisitor

\* C21 (specifier-list exports always go to the value table): a step that
\* handles `export { orig as exported }` records exported -> orig in the value
\* table and leaves the type-only table as it was; the only step of a
\* traversal that changes the type-only table is an inline `export interface`
\* / `export type` declaration; and whenever finalize returns, a file whose
\* type-only table is empty (so one that exports through specifier lists
\* only) has an empty unused type set in the report.
C21_SpecifierListsAreValues ==
    /\ [][\A orig \in Names, exported \in Names :
            VisitExportNamed(orig, exported) =>
                /\ visitor'.type_exports = visitor.type_exports
                /\ exported \in DOMAIN visitor'.exports
                /\ visitor'.exports[exported] = orig]_vars
    /\ [][(Traversing /\ visitor'.type_exports # visitor.type_exports) =>
            \E name \in Names : VisitExportDecl("type", name)]_vars
    /\ [](Returned =>
            \A M \in Analyzed :
                exports[M].type_exports = EmptyMap =>
                    ReportOf(results, M).unused_type_exports = {})

\* An unconsumed file exports a name through a renaming specifier only, and
\* the report lists it in the value set and nothing in the type set.
C21_Witness ==
    /\ Returned
    /\ \E M \in Analyzed :
          /\ M \notin DOMAIN import_usage
          /\ exports[M].type_exports = EmptyMap
          /\ \E n \in DOMAIN exports[M].exports : exports[M].exports[n] # n
          /\ M \in DOMAIN results
          /\ results[M].unused_exports # {}
          /\ results[M].unused_type_exports = {}

\* -------------------------------------------------------------------- C22
RECURSIVE run(_, _, _, _, _)
\* The accumulators after add_file of the files of `order` from position i
\* on, in that order; the outcome of the panic if one of the calls panics.
run(mods, order, i, usage, reg) ==
    IF i > Len(order) THEN Added(usage, reg)
    ELSE LET out == add_file(usage, reg, order[i], mods[order[i]]) IN
         IF out.panic # "" THEN out
         ELSE run(mods, order, i + 1, out.import_usage, out.exports)

\* What the run that feeds the files in the order `order` can end with: the
\* panic of an add_file, or what finalize returns for one of the orders in
\* which it can iterate over the usage index.
Reports(mods, order) ==
    LET out == run(mods, order, 1, EmptyMap, EmptyMap) IN
    IF out.panic # "" THEN {Panicked(out.panic)}
    ELSE {finalize(out.exports, out.import_usage, o) :
            o \in IterOrders(out.import_usage)}

\* C22 (order independence of the extraction phase): whenever finalize ran,
\* every order of feeding the same files to add_file, with every order in
\* which finalize can iterate over the usage index, ends with what this run
\* ended with.
C22_OrderIndependent ==
    Finalized =>
        \A order \in Perms(DOMAIN exports) :
            Reports(modules, order) = {results}

\* Three files were fed, a usage fact of one is traced through the export-all
\* edge of a second to the declaration of a third, and finalize returned.
C22_Witness ==
    /\ Returned
    /\ DOMAIN exports = Paths
    /\ \E f \in Facts(import_usage) :
          /\ trace_export(exports, f[1], f[2], 1) \notin {None, Some(f[1])}
          /\ f[1] \in DOMAIN exports
          /\ modules[f[1]][1].kind = "export_all"

\* -------------------------------------------------------------------- C23
\* C23 (traced and direct usage give the same verdict): whenever finalize
\* returns and the only usage fact is (M, S), where M has the single edge
\* `export * from N` and does not declare S and N exports something under
\* the name S, the report entry for N is the one finalize returns for N when
\* the only usage fact is (N, S).
C23_TracedEqualsDirect ==
    Returned =>
        \A f \in Facts(import_usage) : \A N \in Analyzed \ {f[1]} :
            (/\ Facts(import_usage) = {f}
             /\ f[1] \in Analyzed
             /\ exports[f[1]].export_alls = <<N>>
             /\ f[2] \notin DOMAIN exports[f[1]].exports
                               \cup DOMAIN exports[f[1]].type_exports
             /\ f[2] \in DOMAIN exports[N].exports
                            \cup DOMAIN exports[N].type_exports)
                => \A o \in IterOrders(UsageOf({<<N, f[2]>>})) :
                      LET direct == finalize(exports, UsageOf({<<N, f[2]>>}), o)
                      IN /\ direct # Aborted
                         /\ ReportOf(results, N) = ReportOf(direct, N)

====
